---- MODULE Spec2Model ----
(***************************************************************************)
(* Model of Dzien2/01.presidio/03.appp/pseudonymizer.py: the checksum      *)
(* validators and generators of Polish identifiers (PESEL, NIP, REGON),    *)
(* the seed function, the overlap filter, the casing matcher and the       *)
(* pseudonymize_with_details orchestration.                                *)
(*                                                                         *)
(* Python strings are sequences of one-character strings.  The external    *)
(* collaborators (hashlib.sha256, random.Random, Faker, the Presidio       *)
(* analyzer) are deterministic functions of their arguments; they are      *)
(* modelled by small deterministic stand-ins with the same signature and   *)
(* the same ranges.                                                        *)
(***************************************************************************)
EXTENDS Integers, Sequences, FiniteSets, TLC

VARIABLES
    gen,          \* last identifier-generator call: [fn, seed, arg, out] or NoGen
    valid,        \* result of the validator on gen.out: "none", "True" or "False"
    cased,        \* last direct _match_casing call: [source, replacement, out]
    checked,      \* last validator call on a caller's string: [fn, input, outcome]
    salt,         \* Pseudonymizer.salt
    pc,           \* position in pseudonymize_with_details
    text,         \* argument of the running call
    results,      \* local `results`: the filtered detections, in scan order
    idx,          \* position of the for-loop over results (1-based)
    mapping,      \* local `mapping`: (stripped lowercased original, type) -> replacement
    replacements, \* local `replacements`
    result,       \* the PseudonymizationResult returned by the last finished call
    detected,     \* what the detector has returned so far, per analysed text
    returned,     \* (text, pseudonymized_text) of every finished call
    issued,       \* (original, entity_type, replacement) of every returned Replacement
    seeded,       \* (call, at, salt, value, entity_type, seed, out) of every generation
    ncalls,       \* number of calls started
    threads,      \* the locals of each of the concurrent calls, per thread
    caches        \* the local `mapping` of each of the concurrent calls

vars == <<gen, valid, cased, checked, salt, pc, text, results, idx, mapping, replacements,
          result, detected, returned, issued, seeded, ncalls, threads, caches>>

callVars == <<salt, pc, text, results, idx, mapping, replacements, result,
              detected, returned, issued, seeded, ncalls, threads, caches>>

----------------------------------------------------------------------------
(* Bounds *)

\* seeds handed to the generators directly range over 0..MaxSeed
MaxSeed == 999

\* the stand-in digest has HashMod values
HashMod == 4093

----------------------------------------------------------------------------
(* Characters and strings *)

Digits == <<"0", "1", "2", "3", "4", "5", "6", "7", "8", "9">>

\* a character for which isdigit() is true and int() raises ValueError:
\* "^2" stands for the single character U+00B2, SUPERSCRIPT TWO
SuperscriptDigits == <<"^2">>

LowerLetters == <<"a", "b", "n", "o">>

UpperLetters == <<"A", "B", "N", "O">>

OtherChars == <<" ", "-", "*", "@", ".", "+">>

Alphabet == Digits \o LowerLetters \o UpperLetters \o OtherChars

IndexOf(c, seq) == CHOOSE i \in 1..Len(seq) : seq[i] = c

InSeq(c, seq) == \E i \in 1..Len(seq) : seq[i] = c

\* ord(c), restricted to the alphabet
Ord(c) == IndexOf(c, Alphabet)

\* c.isdigit() for one character
IsDigitChar(c) == InSeq(c, Digits) \/ InSeq(c, SuperscriptDigits)

\* int(c) raises ValueError unless c is a decimal digit
IntRaises(c) == ~InSeq(c, Digits)

\* int(c) for a decimal digit character
ToInt(c) == IndexOf(c, Digits) - 1

\* str(d) for 0 <= d <= 9
Str1(d) == Digits[d + 1]

\* str(n) for a natural number n
RECURSIVE Str(_)
Str(n) == IF n < 10 THEN <<Str1(n)>> ELSE Str(n \div 10) \o <<Str1(n % 10)>>

\* f"{n:0{w}d}": decimal rendering padded with zeros to at least w characters
RECURSIVE Pad(_, _)
Pad(s, w) == IF Len(s) >= w THEN s ELSE Pad(<<"0">> \o s, w)

Fmt0(n, w) == Pad(Str(n), w)

IsUpperChar(c) == InSeq(c, UpperLetters)

IsLowerChar(c) == InSeq(c, LowerLetters)

LowerChar(c) == IF IsUpperChar(c) THEN LowerLetters[IndexOf(c, UpperLetters)] ELSE c

UpperChar(c) == IF IsLowerChar(c) THEN UpperLetters[IndexOf(c, LowerLetters)] ELSE c

\* s.lower()
Lower(s) == [i \in 1..Len(s) |-> LowerChar(s[i])]

\* s.upper()
Upper(s) == [i \in 1..Len(s) |-> UpperChar(s[i])]

\* s.replace(c, "")
RECURSIVE Remove(_, _)
Remove(s, c) ==
    IF s = <<>> THEN <<>>
    ELSE IF Head(s) = c THEN Remove(Tail(s), c)
    ELSE <<Head(s)>> \o Remove(Tail(s), c)

\* s.isdigit(): non-empty and every character a digit
IsDigitStr(s) == Len(s) > 0 /\ \A i \in 1..Len(s) : IsDigitChar(s[i])

\* s[a:b] with 0 <= a, b (Python slice, 0-based, half-open, clipped)
Slice(s, a, b) ==
    LET hi == IF b > Len(s) THEN Len(s) ELSE b
    IN  IF a >= hi THEN <<>> ELSE SubSeq(s, a + 1, hi)

\* s.strip(): the only whitespace of the alphabet is the space
RECURSIVE LStrip(_)
LStrip(s) == IF s # <<>> /\ Head(s) = " " THEN LStrip(Tail(s)) ELSE s

RECURSIVE RStrip(_)
RStrip(s) ==
    IF s # <<>> /\ s[Len(s)] = " " THEN RStrip(SubSeq(s, 1, Len(s) - 1)) ELSE s

Strip(s) == RStrip(LStrip(s))

----------------------------------------------------------------------------
(* Weights *)

PESEL_WEIGHTS == <<1, 3, 7, 9, 1, 3, 7, 9, 1, 3>>

NIP_WEIGHTS == <<6, 5, 7, 2, 3, 4, 5, 6, 7>>

REGON_9_WEIGHTS == <<8, 9, 2, 3, 4, 5, 6, 7>>

REGON_14_WEIGHTS == <<2, 4, 8, 5, 0, 9, 7, 3, 6, 1, 2, 4, 8>>

\* sum(d[i] * w[i] for i in range(n)), d a sequence of numbers
RECURSIVE WSum(_, _, _)
WSum(d, w, n) == IF n = 0 THEN 0 ELSE WSum(d, w, n - 1) + d[n] * w[n]

\* the digits of a digit string as numbers
IntsOf(s) == [i \in 1..Len(s) |-> ToInt(s[i])]

\* "".join(map(str, ds))
StrOfDigits(ds) == [i \in 1..Len(ds) |-> Str1(ds[i])]

----------------------------------------------------------------------------
(* random.Random(seed): a stream of draws fully determined by the seed.    *)
(* The state after seeding and the step are those of a small linear        *)
(* congruential generator; randint(lo, hi) always lies in lo..hi.          *)

\* a stream shared by all calls instead of one seeded per generation
Random_shared(seed) == (seed * 7 + 3 + ncalls) % 10007

Random(seed) == (seed * 7 + 3) % 10007

RngStep(s) == (s * 3125 + 49) % 10007

\* the state of the stream after k draws
RECURSIVE RngAfter(_, _)
RngAfter(seed, k) == IF k = 0 THEN Random(seed) ELSE RngStep(RngAfter(seed, k - 1))

\* the k-th call (k = 1, 2, ...) of rng.randint(lo, hi) on random.Random(seed)
Randint(seed, k, lo, hi) == lo + ((RngAfter(seed, k) \div 7) % (hi - lo + 1))

----------------------------------------------------------------------------
(* PolishIdentifierGenerator *)

\* the day drawn from 1..31
generate_pesel_day31(seed) ==
    LET year   == Randint(seed, 1, 50, 99)
        month  == Randint(seed, 2, 1, 12)
        day    == Randint(seed, 3, 1, 31)
        serial == Randint(seed, 4, 0, 999)
        gender == Randint(seed, 5, 0, 9)
        pesel_10 == Fmt0(year, 2) \o Fmt0(month, 2) \o Fmt0(day, 2)
                    \o Fmt0(serial, 3) \o Str(gender)
        checksum == WSum(IntsOf(pesel_10), PESEL_WEIGHTS, 10)
        control_digit == (10 - (checksum % 10)) % 10
    IN  pesel_10 \o Str(control_digit)

generate_pesel(seed) ==
    LET year   == Randint(seed, 1, 50, 99)
        month  == Randint(seed, 2, 1, 12)
        day    == Randint(seed, 3, 1, 28)
        serial == Randint(seed, 4, 0, 999)
        gender == Randint(seed, 5, 0, 9)
        pesel_10 == Fmt0(year, 2) \o Fmt0(month, 2) \o Fmt0(day, 2)
                    \o Fmt0(serial, 3) \o Str(gender)
        checksum == WSum(IntsOf(pesel_10), PESEL_WEIGHTS, 10)
        control_digit == (10 - (checksum % 10)) % 10
    IN  pesel_10 \o Str(control_digit)

\* the nine digits and the control value of generate_nip before rendering
NipDraw(seed) == [i \in 1..9 |-> Randint(seed, i, 0, 9)]

\* the repair that leaves the ninth digit as it was drawn
NipRepaired_unchanged(nip_9) == nip_9

NipRepaired(nip_9) ==
    [i \in 1..9 |-> IF i = 9 THEN (nip_9[9] + 1) % 10 ELSE nip_9[i]]

\* lines 143-152 on a draw: the nine digits and the control digit that are
\* emitted, and whether control_digit was forced to 0
NipControl(nip_9) ==
    LET control_digit == WSum(nip_9, NIP_WEIGHTS, 9) % 11
    IN  IF control_digit = 10
        THEN LET fixed == NipRepaired(nip_9)
                 control2 == WSum(fixed, NIP_WEIGHTS, 9) % 11
             IN  [nip_9 |-> fixed,
                  control_digit |-> IF control2 = 10 THEN 0 ELSE control2,
                  forced |-> control2 = 10]
        ELSE [nip_9 |-> nip_9, control_digit |-> control_digit, forced |-> FALSE]

\* generate_nip without the repair of a control value of 10
NipDigits_unrepaired(seed) ==
    LET nip_9 == NipDraw(seed)
        control_digit == WSum(nip_9, NIP_WEIGHTS, 9) % 11
    IN  nip_9 \o << IF control_digit = 10 THEN 0 ELSE control_digit >>

NipDigits(seed) ==
    LET emitted == NipControl(NipDraw(seed))
    IN  emitted.nip_9 \o <<emitted.control_digit>>

generate_nip(seed, formatted) ==
    LET nip_str == StrOfDigits(NipDigits(seed))
    IN  IF formatted
        THEN Slice(nip_str, 0, 3) \o <<"-">> \o Slice(nip_str, 3, 6) \o <<"-">>
             \o Slice(nip_str, 6, 8) \o <<"-">> \o Slice(nip_str, 8, 10)
        ELSE nip_str

\* a length check that lets the length 8 through
RegonLengths_with_8 == {8, 9, 14}

\* generate_regon for length in (9, 14); any other length raises ValueError
RegonLengths == {9, 14}

generate_regon(seed, length) ==
    LET weights == IF length = 9 THEN REGON_9_WEIGHTS ELSE REGON_14_WEIGHTS
        digits_count == length - 1
        digits == [i \in 1..digits_count |-> Randint(seed, i, 0, 9)]
        checksum == WSum(digits, weights, digits_count)
        control_digit == IF checksum % 11 = 10 THEN 0 ELSE checksum % 11
    IN  StrOfDigits(digits) \o Str(control_digit)

----------------------------------------------------------------------------
(* PolishIdentifierValidator *)

\* the boolean a validator returns, as printed
Bool(b) == IF b THEN "True" ELSE "False"

\* sum(int(s[i]) * w[i] for i in range(n)) raises ValueError
SumRaises(s, n) == \E i \in 1..n : IntRaises(s[i])

\* each validator gives "True" or "False", the boolean it returns, or
\* "ValueError" when one of its int() calls raises

validate_pesel(pesel) ==
    LET pesel_clean == Remove(Remove(pesel, " "), "-")
    IN  IF Len(pesel_clean) # 11 \/ ~IsDigitStr(pesel_clean) THEN "False"
        ELSE IF SumRaises(pesel_clean, 10) THEN "ValueError"
        ELSE LET checksum == WSum(IntsOf(SubSeq(pesel_clean, 1, 10)),
                                  PESEL_WEIGHTS, 10)
                 control == (10 - (checksum % 10)) % 10
             IN  IF IntRaises(pesel_clean[11]) THEN "ValueError"
                 ELSE Bool(control = ToInt(pesel_clean[11]))

\* a control value of 10 taken as 0, as validate_regon does
validate_nip_ten_as_zero(nip) ==
    LET nip_clean == Remove(Remove(nip, "-"), " ")
    IN  IF Len(nip_clean) # 10 \/ ~IsDigitStr(nip_clean) THEN "False"
        ELSE IF SumRaises(nip_clean, 9) THEN "ValueError"
        ELSE LET checksum == WSum(IntsOf(SubSeq(nip_clean, 1, 9)), NIP_WEIGHTS, 9)
                 control == IF checksum % 11 = 10 THEN 0 ELSE checksum % 11
             IN  IF IntRaises(nip_clean[10]) THEN "ValueError"
                 ELSE Bool(control = ToInt(nip_clean[10]))

validate_nip(nip) ==
    LET nip_clean == Remove(Remove(nip, "-"), " ")
    IN  IF Len(nip_clean) # 10 \/ ~IsDigitStr(nip_clean) THEN "False"
        ELSE IF SumRaises(nip_clean, 9) THEN "ValueError"
        ELSE LET checksum == WSum(IntsOf(SubSeq(nip_clean, 1, 9)), NIP_WEIGHTS, 9)
                 control == checksum % 11
             IN  IF control = 10 THEN "False"
                 ELSE IF IntRaises(nip_clean[10]) THEN "ValueError"
                 ELSE Bool(control = ToInt(nip_clean[10]))

validate_regon(regon) ==
    LET regon_clean == Remove(Remove(regon, " "), "-")
    IN  IF ~IsDigitStr(regon_clean) THEN "False"
        ELSE IF Len(regon_clean) \notin {9, 14} THEN "False"
        ELSE LET weights == IF Len(regon_clean) = 9 THEN REGON_9_WEIGHTS
                            ELSE REGON_14_WEIGHTS
             IN  IF SumRaises(regon_clean, Len(weights)) THEN "ValueError"
                 ELSE LET checksum == WSum(IntsOf(SubSeq(regon_clean, 1, Len(weights))),
                                           weights, Len(weights))
                          control == IF checksum % 11 = 10 THEN 0 ELSE checksum % 11
                      IN  IF IntRaises(regon_clean[Len(regon_clean)]) THEN "ValueError"
                          ELSE Bool(control = ToInt(regon_clean[Len(regon_clean)]))

----------------------------------------------------------------------------
(* Pseudonymizer._compute_seed *)

\* entity types the generators dictionary of _generate_replacement maps
MappedTypes ==
    <<"PERSON", "ORGANIZATION", "EMAIL_ADDRESS", "PHONE_NUMBER", "PL_PHONE",
      "PL_PESEL", "PL_NIP", "PL_REGON", "PL_ID_CARD", "PL_PASSPORT",
      "PL_POSTAL_CODE", "PL_BANK_ACCOUNT", "IBAN_CODE", "CREDIT_CARD",
      "IP_ADDRESS", "URL", "DATE_TIME", "LOCATION">>

\* entity types of the recognizers that have no entry in the dictionary
UnmappedTypes == <<"NRP", "PL_VEHICLE">>

AllTypes == MappedTypes \o UnmappedTypes

\* the characters of an entity type enter the digest as one code per type
TypeOrd(entity_type) == 100 + IndexOf(entity_type, AllTypes)

\* hashlib.sha256(data).hexdigest()[:16] read as an integer: a digest of the
\* character codes of data, folded left to right
RECURSIVE Digest(_, _)
Digest(codes, h) ==
    IF codes = <<>> THEN h
    ELSE Digest(Tail(codes), (h * 31 + Head(codes)) % HashMod)

\* data = f"{self.salt}{value.lower()}{entity_type}"
SeedData(slt, value, entity_type) ==
    [i \in 1..Len(slt) |-> Ord(slt[i])]
    \o [i \in 1..Len(value) |-> Ord(Lower(value)[i])]
    \o <<TypeOrd(entity_type)>>

\* a seed that also depends on how many calls were made before
_compute_seed_counting(slt, value, entity_type) ==
    Digest(SeedData(slt, value, entity_type), 7 + ncalls)

_compute_seed(slt, value, entity_type) == Digest(SeedData(slt, value, entity_type), 7)

----------------------------------------------------------------------------
(* Faker seeded with seed_instance(seed): each provider is a deterministic *)
(* function of the seed.                                                   *)

FakeNames == 
    <<<<"A", "n", "n", "a", " ", "B", "o", "b">>,
    <<"o", "n", " ", "B", "o", "n", "a", " ", "B", "o", "b">>,
    <<"B", "o", "b", " ", "N", "o", "a">>>>

FakeCompanies == 
    <<<<"B", "o", "n", "a", "-", "B", "o", "b">>,
    <<"A", "b", "o", " ", "o", "n">>>>

FakeCities == 
    <<<<"B", "o", "n", "n">>,
    <<"N", "a", "b", "o", " ", "B", "a">>>>

FakeEmails == 
    <<<<"a", "n", "n", "a", "@", "b", "o", "b", ".", "b", "o">>,
    <<"b", "o", "b", ".", "b", "@", "a", "b", ".", "o", "n">>>>

FakePhones == 
    <<<<"+", "2", "2", " ", "1", "0", "1", " ", "2", "0", "2">>,
    <<"9", "0", "9", " ", "4", "0", "4", " ", "5", "0", "5">>>>

FakeOthers == 
    <<<<"1", "0", ".", "0", ".", "0", ".", "9">>,
    <<"0", "0", "9", "9", "-", "0", "9", "-", "0", "9">>>>

\* a provider that picks one of its values
FakerPick(table, seed) == table[Randint(seed, 1, 1, Len(table))]

\* fake.numerify(pattern): every "#" becomes a random digit
Numerify(pattern, seed) ==
    [i \in 1..Len(pattern) |->
        IF pattern[i] = "#" THEN Str1(Randint(seed, i, 0, 9)) ELSE pattern[i]]

\* fake.bothify(pattern): numerify, then every "?" becomes a random letter
Letters == LowerLetters \o UpperLetters

Bothify(pattern, seed) ==
    LET numbered == Numerify(pattern, seed)
    IN  [i \in 1..Len(numbered) |->
            IF numbered[i] = "?"
            THEN Letters[Randint(seed, Len(pattern) + i, 1, Len(Letters))]
            ELSE numbered[i]]

----------------------------------------------------------------------------
(* Pseudonymizer._generate_replacement *)

\* the length of the original compared without removing its separators
RegonLengthFor_raw(original) == IF Len(original) > 9 THEN 14 ELSE 9

\* the cleaned length of the original handed on as it is
RegonLengthFor_cleaned(original) == Len(Remove(Remove(original, " "), "-"))

\* 14 if len(original.replace(" ", "").replace("-", "")) > 9 else 9
RegonLengthFor(original) ==
    IF Len(Remove(Remove(original, " "), "-")) > 9 THEN 14 ELSE 9

\* "*" * len(original)
Mask(original) == [i \in 1..Len(original) |-> "*"]

\* generators[entity_type]() for a mapped entity type
Generate(entity_type, seed, original) ==
    CASE entity_type = "PERSON" -> FakerPick(FakeNames, seed)
      [] entity_type = "ORGANIZATION" -> FakerPick(FakeCompanies, seed)
      [] entity_type = "EMAIL_ADDRESS" -> FakerPick(FakeEmails, seed)
      [] entity_type \in {"PHONE_NUMBER", "PL_PHONE"} -> FakerPick(FakePhones, seed)
      [] entity_type = "PL_PESEL" -> generate_pesel(seed)
      [] entity_type = "PL_NIP" -> generate_nip(seed, TRUE)
      [] entity_type = "PL_REGON" -> generate_regon(seed, RegonLengthFor(original))
      [] entity_type = "PL_ID_CARD" ->
            Upper(Bothify(<<"?", "?", "?", "#", "#", "#", "#", "#", "#">>, seed))
      [] entity_type = "PL_PASSPORT" ->
            Upper(Bothify(<<"?", "?", "#", "#", "#", "#", "#", "#", "#">>, seed))
      [] entity_type = "PL_POSTAL_CODE" ->
            Numerify(<<"#", "#", "-", "#", "#", "#">>, seed)
      [] entity_type = "PL_BANK_ACCOUNT" ->
            Numerify(<<"#", "#", " ", "#", "#", "#", "#", " ", "#", "#", "#", "#",
                       " ", "#", "#", "#", "#", " ", "#", "#", "#", "#", " ",
                       "#", "#", "#", "#", " ", "#", "#", "#", "#">>, seed)
      [] entity_type = "LOCATION" -> FakerPick(FakeCities, seed)
      [] OTHER -> FakerPick(FakeOthers, seed)

_generate_replacement(slt, original, entity_type) ==
    LET seed == _compute_seed(slt, original, entity_type)
    IN  IF InSeq(entity_type, MappedTypes)
        THEN Generate(entity_type, seed, original)
        ELSE Mask(original)

----------------------------------------------------------------------------
(* Pseudonymizer._match_casing *)

\* the allow-list extended by a fourth entity type
CASE_SENSITIVE_ENTITIES_with_email ==
    {"PERSON", "ORGANIZATION", "LOCATION", "EMAIL_ADDRESS"}

CASE_SENSITIVE_ENTITIES == {"PERSON", "ORGANIZATION", "LOCATION"}

\* s.isupper(): at least one cased character and no lowercase one
IsUpper(s) ==
    /\ \E i \in 1..Len(s) : IsUpperChar(s[i])
    /\ \A i \in 1..Len(s) : ~IsLowerChar(s[i])

\* s.islower(): at least one cased character and no uppercase one
IsLower(s) ==
    /\ \E i \in 1..Len(s) : IsLowerChar(s[i])
    /\ \A i \in 1..Len(s) : ~IsUpperChar(s[i])

\* s.split(): the words between runs of whitespace, none of them empty
RECURSIVE SplitFrom(_, _, _)
SplitFrom(s, i, word) ==
    IF i > Len(s) THEN (IF word = <<>> THEN <<>> ELSE <<word>>)
    ELSE IF s[i] = " "
         THEN (IF word = <<>> THEN <<>> ELSE <<word>>) \o SplitFrom(s, i + 1, <<>>)
         ELSE SplitFrom(s, i + 1, word \o <<s[i]>>)

Split(s) == SplitFrom(s, 1, <<>>)

\* " ".join(words)
RECURSIVE Join(_)
Join(words) ==
    IF words = <<>> THEN <<>>
    ELSE IF Len(words) = 1 THEN words[1]
    ELSE words[1] \o <<" ">> \o Join(Tail(words))

\* only the first character changed, the rest kept as generated
Capitalize_first(w) ==
    [i \in 1..Len(w) |-> IF i = 1 THEN UpperChar(w[i]) ELSE w[i]]

\* w.capitalize(): first character uppercased, the rest lowercased
Capitalize(w) ==
    [i \in 1..Len(w) |-> IF i = 1 THEN UpperChar(w[i]) ELSE LowerChar(w[i])]

\* the test of the first character left out
IsTitleWord_rest(w) == IsLower(Tail(w))

\* w[0].isupper() and w[1:].islower()
IsTitleWord(w) == IsUpperChar(w[1]) /\ IsLower(Tail(w))

_match_casing(source, replacement) ==
    LET words == Split(source)
    IN  IF IsUpper(source) THEN Upper(replacement)
        ELSE IF /\ words # <<>>
                /\ \A i \in 1..Len(words) : Len(words[i]) > 1 => IsTitleWord(words[i])
        THEN LET rwords == Split(replacement)
             IN  Join([i \in 1..Len(rwords) |-> Capitalize(rwords[i])])
        ELSE replacement

----------------------------------------------------------------------------
(* Pseudonymizer._filter_overlapping *)

\* a sort that puts a detection before the earlier ones of equal score
RECURSIVE InsertByScore_strict(_, _)
InsertByScore_strict(sorted, r) ==
    IF sorted = <<>> THEN <<r>>
    ELSE IF Head(sorted).score > r.score
         THEN <<Head(sorted)>> \o InsertByScore_strict(Tail(sorted), r)
         ELSE <<r>> \o sorted

\* sorted(results, key=lambda r: r.score, reverse=True): a stable sort, so
\* detections of equal score keep their input order
RECURSIVE InsertByScore(_, _)
InsertByScore(sorted, r) ==
    IF sorted = <<>> THEN <<r>>
    ELSE IF Head(sorted).score >= r.score
         THEN <<Head(sorted)>> \o InsertByScore(Tail(sorted), r)
         ELSE <<r>> \o sorted

\* no sort: the detections in the detector's order
SortByScore_unsorted(rs, n) == rs

RECURSIVE SortByScore(_, _)
SortByScore(rs, n) ==
    IF n = 0 THEN <<>> ELSE InsertByScore(SortByScore(rs, n - 1), rs[n])

\* the second comparison against accepted.start instead of accepted.end
Overlapping_start(r, accepted) ==
    ~(r.end <= accepted.start \/ r.start >= accepted.start)

\* touching ranges taken as overlapping
Overlapping_touching(r, accepted) ==
    ~(r.end < accepted.start \/ r.start > accepted.end)

\* not (result.end <= accepted.start or result.start >= accepted.end)
Overlapping(r, accepted) == ~(r.end <= accepted.start \/ r.start >= accepted.end)

\* the scan comparing a detection with the last accepted one only
RECURSIVE FilterScan_last(_, _)
FilterScan_last(sorted_results, filtered) ==
    IF sorted_results = <<>> THEN filtered
    ELSE LET r == Head(sorted_results)
             is_overlapping ==
                 filtered # <<>> /\ Overlapping(r, filtered[Len(filtered)])
         IN  FilterScan_last(Tail(sorted_results),
                             IF is_overlapping THEN filtered ELSE Append(filtered, r))

\* the scan that widens an accepted detection over each detection that
\* intersects it instead of dropping that detection
RECURSIVE FilterScan_merging(_, _)
FilterScan_merging(sorted_results, filtered) ==
    IF sorted_results = <<>> THEN filtered
    ELSE LET r == Head(sorted_results)
             hits == { j \in 1..Len(filtered) : Overlapping(r, filtered[j]) }
             first == CHOOSE j \in hits : \A k \in hits : j <= k
             merged ==
                 [j \in 1..Len(filtered) |->
                     IF j = first
                     THEN [start |-> IF r.start < filtered[j].start
                                     THEN r.start ELSE filtered[j].start,
                           end |-> IF r.end > filtered[j].end
                                   THEN r.end ELSE filtered[j].end,
                           entity_type |-> filtered[j].entity_type,
                           score |-> filtered[j].score]
                     ELSE filtered[j]]
         IN  FilterScan_merging(Tail(sorted_results),
                                IF hits # {} THEN merged ELSE Append(filtered, r))

RECURSIVE FilterScan(_, _)
FilterScan(sorted_results, filtered) ==
    IF sorted_results = <<>> THEN filtered
    ELSE LET r == Head(sorted_results)
             is_overlapping ==
                 \E j \in 1..Len(filtered) : Overlapping(r, filtered[j])
         IN  FilterScan(Tail(sorted_results),
                        IF is_overlapping THEN filtered ELSE Append(filtered, r))

_filter_overlapping(rs) ==
    IF rs = <<>> THEN <<>> ELSE FilterScan(SortByScore(rs, Len(rs)), <<>>)

----------------------------------------------------------------------------
(* Pseudonymizer.pseudonymize_with_details *)

\* a dict with no entries
EmptyMap == [k \in {} |-> <<>>]

\* mapping: dict[tuple[str, str], str] = {}, built anew by every call
FreshMapping == EmptyMap

\* the lookup that never finds the key
CacheHit_never(cache, key) == FALSE

\* `if key not in mapping` is false: the key has been cached by this call
CacheHit(cache, key) == key \in DOMAIN cache

\* the key without normalisation
CacheKey_raw(original, entity_type) == <<original, entity_type>>

\* key = (original.strip().lower(), result.entity_type)
CacheKey(original, entity_type) == <<Lower(Strip(original)), entity_type>>

\* sorted(replacements, key=lambda r: r.start, reverse=True), a stable sort
RECURSIVE InsertByStart(_, _)
InsertByStart(sorted, r) ==
    IF sorted = <<>> THEN <<r>>
    ELSE IF Head(sorted).start >= r.start
         THEN <<Head(sorted)>> \o InsertByStart(Tail(sorted), r)
         ELSE <<r>> \o sorted

RECURSIVE SortByStart(_, _)
SortByStart(rs, n) ==
    IF n = 0 THEN <<>> ELSE InsertByStart(SortByStart(rs, n - 1), rs[n])

\* the sort without reverse=True: ascending start
SpliceOrder_ascending(rs) ==
    LET d == SortByStart(rs, Len(rs))
    IN  [i \in 1..Len(d) |-> d[Len(d) + 1 - i]]

\* the order in which the replacements are spliced into the text
SpliceOrder(rs) == SortByStart(rs, Len(rs))

\* new_text = new_text[: repl.start] + repl.replacement + new_text[repl.end :]
SpliceOne(new_text, repl) ==
    Slice(new_text, 0, repl.start) \o repl.replacement
    \o Slice(new_text, repl.end, Len(new_text))

RECURSIVE Splice(_, _)
Splice(new_text, order) ==
    IF order = <<>> THEN new_text
    ELSE Splice(SpliceOne(new_text, Head(order)), Tail(order))

\* the replacement text of a key that is not yet in the mapping
NewReplacement(slt, original, entity_type) ==
    LET replacement_text == _generate_replacement(slt, original, entity_type)
    IN  IF entity_type \in CASE_SENSITIVE_ENTITIES
        THEN _match_casing(original, replacement_text)
        ELSE replacement_text

\* an exception in the place of a returned text
Raised == <<"raised">>

\* a failure of the external generator answered by the mask
ReplacementOrRaise_masked(fails, slt, original, entity_type) ==
    IF fails THEN Mask(original) ELSE NewReplacement(slt, original, entity_type)

\* the generation for a new key when the external value generator fails or
\* not: there is no try/except, an exception leaves pseudonymize_with_details
ReplacementOrRaise(fails, slt, original, entity_type) ==
    IF fails THEN Raised ELSE NewReplacement(slt, original, entity_type)

DEFAULT_SALT == <<"b", "o">>

\* the keyword argument salt left out by the caller
NotGiven == <<"not given">>

\* what callers pass as salt: nothing, the empty string, a secret
SaltArgs == {NotGiven, <<>>, <<"a", "-", "9">>}

\* self.salt after Pseudonymizer(salt=...): the argument, or DEFAULT_SALT when
\* it is left out; no argument is rejected
__init__(salt_arg) == IF salt_arg = NotGiven THEN DEFAULT_SALT ELSE salt_arg

\* the salts of constructed Pseudonymizers
Salts == { __init__(salt_arg) : salt_arg \in SaltArgs }

\* texts handed to pseudonymize, each with the spans, entity types and
\* confidence scores (in hundredths) the detector may report for it
Cases ==
    { [text |-> <<"A", "n", "n", " ", "A", "N", "N">>,
       spans |-> {<<0, 3>>, <<4, 7>>, <<3, 7>>, <<0, 7>>},
       types |-> {"PERSON"}, scores |-> {35, 85}],
      [text |-> <<" ", "a", "b", " ", "a", "b">>,
       spans |-> {<<0, 3>>, <<1, 3>>, <<4, 6>>, <<3, 6>>},
       types |-> {"NRP"}, scores |-> {85}],
      [text |-> <<"1", "2", "-", "3", "4", "5", "-", "6", "7", "8", " ", "1", "2", "3", "4", "5", "6", "7", "8", "9", "0", "1">>,
       spans |-> {<<0, 10>>, <<11, 22>>},
       types |-> {"PL_REGON", "PL_PESEL"}, scores |-> {85}],
      [text |-> <<"1", "-", "1">>,
       spans |-> {<<0, 1>>, <<0, 2>>, <<0, 3>>, <<1, 2>>, <<1, 3>>, <<2, 3>>},
       types |-> {"PL_NIP"}, scores |-> {85}],
      [text |-> <<"A", "B", " ", "A", "b">>,
       spans |-> {<<0, 2>>, <<3, 5>>},
       types |-> {"EMAIL_ADDRESS", "NRP"}, scores |-> {85}] }

\* texts of a session of several calls
SessionCases ==
    { [text |-> <<"A", "n", "n", " ", "A", "N", "N">>, spans |-> {<<0, 3>>, <<4, 7>>},
       types |-> {"PERSON"}, scores |-> {85}],
      [text |-> <<"A", "n", "n", " ">>, spans |-> {<<0, 3>>, <<0, 4>>},
       types |-> {"PERSON"}, scores |-> {85}],
      [text |-> <<" ", "1", "2">>, spans |-> {<<0, 3>>, <<1, 3>>},
       types |-> {"PL_REGON"}, scores |-> {85}] }

Detections(c) ==
    { [start |-> sp[1], end |-> sp[2], entity_type |-> et, score |-> sc] :
        sp \in c.spans, et \in c.types, sc \in c.scores }

\* what self._analyzer.analyze may return for a text: up to n detections
DetLists(c, n) == UNION { [1..k -> Detections(c)] : k \in 0..n }

\* most detections the detector returns for one text
MaxDets == 3

\* in a session the detector reports each candidate at most once, in any order
SessionLists(c) ==
    { dets \in DetLists(c, Cardinality(Detections(c))) :
        \A i, j \in 1..Len(dets) : i # j => dets[i] # dets[j] }

\* most calls in a session
MaxCalls == 3

\* no generator call yet
NoGen == [fn |-> "none", seed |-> 0, arg |-> 0, out |-> <<>>, raised |-> "none"]

\* no direct call of _match_casing yet
NoCasing == [source |-> <<>>, replacement |-> <<>>, out |-> <<>>]

\* no validator call on a caller's string yet
NoCheck == [fn |-> "none", input |-> <<>>, outcome |-> "none"]

\* the threads that call pseudonymize_with_details on one Pseudonymizer
Threads == {1, 2}

\* a thread that has not called yet
ThreadIdle ==
    [pc |-> "idle", text |-> <<>>, dets |-> <<>>, results |-> <<>>, idx |-> 1,
     replacements |-> <<>>,
     result |-> [original_text |-> <<>>, pseudonymized_text |-> <<>>,
                 replacements |-> <<>>]]

\* no call of pseudonymize_with_details yet
CallIdle ==
    /\ threads = [t \in Threads |-> ThreadIdle]
    /\ caches = [t \in Threads |-> EmptyMap]
    /\ pc = "idle"
    /\ text = <<>>
    /\ results = <<>>
    /\ idx = 1
    /\ mapping = EmptyMap
    /\ replacements = <<>>
    /\ result = [original_text |-> <<>>, pseudonymized_text |-> <<>>,
                 replacements |-> <<>>]
    /\ detected = EmptyMap
    /\ returned = {}
    /\ issued = {}
    /\ seeded = {}
    /\ ncalls = 0

Init ==
    /\ gen = NoGen
    /\ valid = "none"
    /\ cased = NoCasing
    /\ checked = NoCheck
    /\ salt \in Salts
    /\ CallIdle

\* results = self.analyze(text): the detector, then _filter_overlapping
Analyze(c, dets) ==
    /\ pc = "idle"
    /\ c.text \in DOMAIN detected => dets = detected[c.text]
    /\ detected' = IF c.text \in DOMAIN detected THEN detected
                   ELSE detected @@ (c.text :> dets)
    /\ text' = c.text
    /\ results' = _filter_overlapping(dets)
    /\ replacements' = <<>>
    /\ mapping' = FreshMapping
    /\ idx' = 1
    /\ ncalls' = ncalls + 1
    /\ pc' = "prepare"
    /\ UNCHANGED <<threads, caches, gen, valid, cased, checked, salt, result, returned, issued, seeded>>

\* self._analyzer.analyze raises: the call ends with the exception
AnalyzeRaises(c) ==
    /\ pc = "idle"
    /\ text' = c.text
    /\ ncalls' = ncalls + 1
    /\ pc' = "raised"
    /\ UNCHANGED <<threads, caches, gen, valid, cased, checked, salt, results, idx, mapping,
                   replacements, result, detected, returned, issued, seeded>>

\* one iteration of `for result in results`; `fails` tells whether the
\* external value generator raises when a replacement is generated
Prepare(fails) ==
    /\ pc = "prepare"
    /\ idx <= Len(results)
    /\ LET r == results[idx]
           original == Slice(text, r.start, r.end)
           key == CacheKey(original, r.entity_type)
           hit == CacheHit(mapping, key)
           generated == IF hit THEN mapping[key]
                        ELSE ReplacementOrRaise(fails, salt, original, r.entity_type)
           mapping2 == IF hit THEN mapping ELSE (key :> generated) @@ mapping
       IN  /\ fails => ~hit
           /\ IF generated = Raised
              THEN /\ pc' = "raised"
                   /\ UNCHANGED <<mapping, replacements, seeded, idx>>
              ELSE /\ mapping' = mapping2
                   /\ replacements' = Append(replacements,
                          [start |-> r.start, end |-> r.end, original |-> original,
                           replacement |-> mapping2[key],
                           entity_type |-> r.entity_type, score |-> r.score])
                   /\ seeded' = IF hit THEN seeded
                                ELSE seeded \cup
                                     {[call |-> ncalls, at |-> idx,
                                       salt |-> salt, value |-> original,
                                       entity_type |-> r.entity_type,
                                       seed |-> _compute_seed(salt, original, r.entity_type),
                                       out |-> _generate_replacement(salt, original,
                                                                     r.entity_type)]}
                   /\ idx' = idx + 1
                   /\ pc' = pc
    /\ UNCHANGED <<threads, caches, gen, valid, cased, checked, salt, text, results, result, detected,
                   returned, issued, ncalls>>

\* the splice loop and the return
Rewrite ==
    /\ pc = "prepare"
    /\ idx > Len(results)
    /\ LET new_text == Splice(text, SpliceOrder(replacements))
       IN  /\ result' = [original_text |-> text, pseudonymized_text |-> new_text,
                         replacements |-> replacements]
           /\ returned' = returned \cup {<<text, new_text>>}
    /\ issued' = issued \cup
                 { <<replacements[i].original, replacements[i].entity_type,
                     replacements[i].replacement>> : i \in 1..Len(replacements) }
    /\ pc' = "idle"
    /\ UNCHANGED <<threads, caches, gen, valid, cased, checked, salt, text, results, idx, mapping, replacements,
                   detected, seeded, ncalls>>

\* one call of pseudonymize_with_details on any text with any detections
Next ==
    \/ /\ ncalls = 0
       /\ \E c \in Cases : \E dets \in DetLists(c, MaxDets) : Analyze(c, dets)
    \/ /\ ncalls = 0
       /\ \E c \in Cases : AnalyzeRaises(c)
    \/ \E fails \in BOOLEAN : Prepare(fails)
    \/ Rewrite

Spec == Init /\ [][Next]_vars

\* a session of calls on one Pseudonymizer with a deterministic detector
StartCall ==
    /\ ncalls < MaxCalls
    /\ \E c \in SessionCases :
          IF c.text \in DOMAIN detected
          THEN Analyze(c, detected[c.text])
          ELSE \E dets \in SessionLists(c) : Analyze(c, dets)

NextSession ==
    \/ StartCall
    \/ Prepare(FALSE)
    \/ Rewrite

SpecSession == Init /\ [][NextSession]_vars

----------------------------------------------------------------------------
(* Concurrent calls of pseudonymize_with_details on one Pseudonymizer: the *)
(* threads interleave at the detector call and at every loop iteration.    *)

\* a single dict used by every call instead of one dict per call
CacheOwner_shared(t) == 1

\* `mapping` is a local of the call (line 440): each call owns its dict
CacheOwner(t) == t

\* results = self.analyze(text); mapping = {}; replacements = []
TAnalyze(t, c, dets) ==
    /\ threads[t].pc = "idle"
    /\ threads' = [threads EXCEPT ![t] =
                     [pc |-> "prepare", text |-> c.text, dets |-> dets,
                      results |-> _filter_overlapping(dets), idx |-> 1,
                      replacements |-> <<>>, result |-> ThreadIdle.result]]
    /\ caches' = [caches EXCEPT ![CacheOwner(t)] = FreshMapping]
    /\ UNCHANGED <<gen, valid, cased, checked>>
    /\ UNCHANGED <<salt, pc, text, results, idx, mapping, replacements, result,
                   detected, returned, issued, seeded, ncalls>>

\* one iteration of `for result in results` in thread t
TPrepare(t) ==
    /\ threads[t].pc = "prepare"
    /\ threads[t].idx <= Len(threads[t].results)
    /\ LET r == threads[t].results[threads[t].idx]
           original == Slice(threads[t].text, r.start, r.end)
           key == CacheKey(original, r.entity_type)
           cache == caches[CacheOwner(t)]
           mapping2 == IF CacheHit(cache, key) THEN cache
                       ELSE (key :> NewReplacement(salt, original, r.entity_type))
                            @@ cache
       IN  /\ caches' = [caches EXCEPT ![CacheOwner(t)] = mapping2]
           /\ threads' = [threads EXCEPT
                  ![t].replacements = Append(threads[t].replacements,
                      [start |-> r.start, end |-> r.end, original |-> original,
                       replacement |-> mapping2[key],
                       entity_type |-> r.entity_type, score |-> r.score]),
                  ![t].idx = threads[t].idx + 1]
    /\ UNCHANGED <<gen, valid, cased, checked>>
    /\ UNCHANGED <<salt, pc, text, results, idx, mapping, replacements, result,
                   detected, returned, issued, seeded, ncalls>>

\* the splice loop and the return in thread t
TRewrite(t) ==
    /\ threads[t].pc = "prepare"
    /\ threads[t].idx > Len(threads[t].results)
    /\ threads' = [threads EXCEPT
           ![t].pc = "done",
           ![t].result =
               [original_text |-> threads[t].text,
                pseudonymized_text |->
                    Splice(threads[t].text, SpliceOrder(threads[t].replacements)),
                replacements |-> threads[t].replacements]]
    /\ UNCHANGED <<gen, valid, cased, checked, caches>>
    /\ UNCHANGED <<salt, pc, text, results, idx, mapping, replacements, result,
                   detected, returned, issued, seeded, ncalls>>

NextConcurrent ==
    \/ \E t \in Threads, c \in SessionCases :
          \E dets \in SessionLists(c) : TAnalyze(t, c, dets)
    \/ \E t \in Threads : TPrepare(t)
    \/ \E t \in Threads : TRewrite(t)

SpecConcurrent == Init /\ [][NextConcurrent]_vars

\* the loop `for result in results` as a function: the mapping and the
\* replacements after the detections rs[i..] have been processed
RECURSIVE PrepareAll(_, _, _, _, _, _)
PrepareAll(slt, txt, rs, i, cache, repls) ==
    IF i > Len(rs) THEN repls
    ELSE LET r == rs[i]
             original == Slice(txt, r.start, r.end)
             key == CacheKey(original, r.entity_type)
             mapping2 == IF CacheHit(cache, key) THEN cache
                         ELSE (key :> NewReplacement(slt, original, r.entity_type))
                              @@ cache
         IN  PrepareAll(slt, txt, rs, i + 1, mapping2,
                        Append(repls,
                            [start |-> r.start, end |-> r.end, original |-> original,
                             replacement |-> mapping2[key],
                             entity_type |-> r.entity_type, score |-> r.score]))

\* what pseudonymize_with_details returns when it runs alone on a text for
\* which the detector returns dets
RunAlone(slt, txt, dets) ==
    LET repls == PrepareAll(slt, txt, _filter_overlapping(dets), 1, FreshMapping, <<>>)
    IN  [original_text |-> txt,
         pseudonymized_text |-> Splice(txt, SpliceOrder(repls)),
         replacements |-> repls]

----------------------------------------------------------------------------
(* Direct use of the generators and validators, as in main() lines 531-541 *)

Seeds == 0..MaxSeed

\* lengths a caller may pass to generate_regon
LengthArgs == {8, 9, 10, 14}

InitGen ==
    /\ gen = NoGen
    /\ valid = "none"
    /\ cased = NoCasing
    /\ checked = NoCheck
    /\ salt = DEFAULT_SALT
    /\ CallIdle

GeneratePesel(seed) ==
    /\ gen = NoGen
    /\ gen' = [fn |-> "pesel", seed |-> seed, arg |-> 0,
               out |-> generate_pesel(seed), raised |-> "none"]
    /\ valid' = "none"
    /\ UNCHANGED <<cased, checked>>
    /\ UNCHANGED callVars

GenerateNip(seed, formatted) ==
    /\ gen = NoGen
    /\ gen' = [fn |-> "nip", seed |-> seed, arg |-> IF formatted THEN 1 ELSE 0,
               out |-> generate_nip(seed, formatted), raised |-> "none"]
    /\ valid' = "none"
    /\ UNCHANGED <<cased, checked>>
    /\ UNCHANGED callVars

GenerateRegon(seed, length) ==
    /\ gen = NoGen
    /\ gen' = IF length \notin RegonLengths
              THEN [fn |-> "regon", seed |-> seed, arg |-> length,
                    out |-> <<>>, raised |-> "ValueError"]
              ELSE [fn |-> "regon", seed |-> seed, arg |-> length,
                    out |-> generate_regon(seed, length), raised |-> "none"]
    /\ valid' = "none"
    /\ UNCHANGED <<cased, checked>>
    /\ UNCHANGED callVars

\* the validator of the family of the generated identifier
ValidatorOf(fn, s) ==
    CASE fn = "pesel" -> validate_pesel(s)
      [] fn = "nip"   -> validate_nip(s)
      [] fn = "regon" -> validate_regon(s)

Validate ==
    /\ gen.fn # "none"
    /\ gen.raised = "none"
    /\ valid = "none"
    /\ valid' = ValidatorOf(gen.fn, gen.out)
    /\ UNCHANGED <<gen>>
    /\ UNCHANGED <<cased, checked>>
    /\ UNCHANGED callVars

\* the loop of main() moves on to the next seed
NextSeed ==
    /\ gen.fn # "none"
    /\ gen.raised # "none" \/ valid # "none"
    /\ gen' = NoGen
    /\ valid' = "none"
    /\ UNCHANGED <<cased, checked>>
    /\ UNCHANGED callVars

NextGen ==
    \/ \E seed \in Seeds : GeneratePesel(seed)
    \/ \E seed \in Seeds, formatted \in BOOLEAN : GenerateNip(seed, formatted)
    \/ \E seed \in Seeds, length \in LengthArgs : GenerateRegon(seed, length)
    \/ Validate
    \/ NextSeed

SpecGen == InitGen /\ [][NextGen]_vars

----------------------------------------------------------------------------
(* Direct use of the validators on strings a caller supplies               *)

\* the identifiers the inputs are derived from are generated from the
\* seeds 0..MaxInputSeed
MaxInputSeed == 4

\* well-formed identifiers of the three families, grouped and bare
BaseInputs ==
    UNION { { generate_pesel(seed),
              generate_nip(seed, TRUE), generate_nip(seed, FALSE),
              generate_regon(seed, 9), generate_regon(seed, 14) } :
            seed \in 0..MaxInputSeed }

\* the nine digits generate_nip draws, before any repair, followed by each
\* of the characters that pass isdigit()
UnrepairedNips ==
    { StrOfDigits(NipDraw(seed)) \o <<c>> :
        seed \in 0..MaxInputSeed,
        c \in { Digits[i] : i \in 1..10 } \cup { SuperscriptDigits[1] } }

\* characters put in the place of a character of an identifier: digits, a
\* digit that is not decimal, a letter, a separator
EditChars == {"0", "7", "^2", "a", "-"}

\* s with the character at position p replaced by c
ReplaceAt(s, p, c) == [i \in 1..Len(s) |-> IF i = p THEN c ELSE s[i]]

\* malformed and well-formed inputs: the empty string, the identifiers,
\* each one shortened, lengthened, and with one character replaced
InputStrings ==
    {<<>>} \cup BaseInputs \cup UnrepairedNips
        \cup { SubSeq(s, 1, Len(s) - 1) : s \in BaseInputs }
        \cup { s \o <<"1">> : s \in BaseInputs }
        \cup UNION { { ReplaceAt(s, p, c) : p \in 1..Len(s), c \in EditChars } :
                     s \in BaseInputs }

ValidateInput(fn, s) ==
    /\ checked = NoCheck
    /\ checked' = [fn |-> fn, input |-> s, outcome |-> ValidatorOf(fn, s)]
    /\ UNCHANGED <<gen, valid, cased>>
    /\ UNCHANGED callVars

\* the caller moves on to the next string
NextInput ==
    /\ checked # NoCheck
    /\ checked' = NoCheck
    /\ UNCHANGED <<gen, valid, cased>>
    /\ UNCHANGED callVars

NextValidate ==
    \/ \E fn \in {"pesel", "nip", "regon"}, s \in InputStrings : ValidateInput(fn, s)
    \/ NextInput

SpecValidate == InitGen /\ [][NextValidate]_vars

----------------------------------------------------------------------------
(* Direct use of the static method _match_casing                           *)

\* longest source handed to _match_casing directly
MaxSourceLen == 4

\* characters of those sources: a lowercase letter, an uppercase letter,
\* the space and an uncased character
SourceChars == {"a", "A", " ", "1"}

Sources == UNION { [1..k -> SourceChars] : k \in 0..MaxSourceLen }

\* replacement texts: what the name, company and city providers return
GeneratedTexts ==
    { FakeNames[i] : i \in 1..Len(FakeNames) }
        \cup { FakeCompanies[i] : i \in 1..Len(FakeCompanies) }
        \cup { FakeCities[i] : i \in 1..Len(FakeCities) }

MatchCasing(source, replacement) ==
    /\ cased = NoCasing
    /\ cased' = [source |-> source, replacement |-> replacement,
                 out |-> _match_casing(source, replacement)]
    /\ UNCHANGED <<gen, valid, checked>>
    /\ UNCHANGED callVars

\* the caller moves on to the next pair
NextPair ==
    /\ cased # NoCasing
    /\ cased' = NoCasing
    /\ UNCHANGED <<gen, valid, checked>>
    /\ UNCHANGED callVars

NextCasing ==
    \/ \E source \in Sources, replacement \in GeneratedTexts :
          MatchCasing(source, replacement)
    \/ NextPair

SpecCasing == InitGen /\ [][NextCasing]_vars

----------------------------------------------------------------------------
(* The control digit of generate_nip on the draws of rng.randint(0, 9)     *)

\* largest digit repeated in the positions 3..8 of a draw
MaxFill == 2

\* nine-digit draws: every first, second and ninth digit, the six digits
\* between them equal; the weighted sum of the first eight takes every
\* value modulo 11 next to every ninth digit
NipDraws ==
    { [i \in 1..9 |-> CASE i = 1 -> d1 [] i = 2 -> d2 [] i = 9 -> d9
                         [] OTHER -> fill] :
        d1 \in 0..9, d2 \in 0..9, d9 \in 0..9, fill \in 0..MaxFill }

ControlNip(nip_9) ==
    /\ gen = NoGen
    /\ gen' = [fn |-> "nip_9", draw |-> nip_9, emitted |-> NipControl(nip_9)]
    /\ UNCHANGED <<valid, cased, checked>>
    /\ UNCHANGED callVars

\* the caller moves on to the next draw
NextDraw ==
    /\ gen # NoGen
    /\ gen' = NoGen
    /\ UNCHANGED <<valid, cased, checked>>
    /\ UNCHANGED callVars

NextNip ==
    \/ \E nip_9 \in NipDraws : ControlNip(nip_9)
    \/ NextDraw

SpecNip == InitGen /\ [][NextNip]_vars

----------------------------------------------------------------------------
(* C1: whatever the seed, the identifier a generator returned (PESEL, NIP  *)
(* grouped or bare, REGON of 9 or 14 digits) is accepted by the validator  *)
(* of its family.                                                          *)
C1_GeneratedValidates == valid # "none" => valid = "True"

\* a grouped NIP whose first control value was 10 has been repaired and validated
C1_Witness ==
    /\ valid = "True"
    /\ gen.fn = "nip"
    /\ gen.arg = 1
    /\ WSum(NipDraw(gen.seed), NIP_WEIGHTS, 9) % 11 = 10

----------------------------------------------------------------------------
(* Claims about pseudonymize_with_details *)

Returned == result.replacements

NationalIds == {"PL_PESEL", "PL_NIP", "PL_REGON"}

IdValidates(entity_type, s) ==
    CASE entity_type = "PL_PESEL" -> validate_pesel(s) = "True"
      [] entity_type = "PL_NIP"   -> validate_nip(s) = "True"
      [] entity_type = "PL_REGON" -> validate_regon(s) = "True"

\* the normalized key of a Replacement: trimmed lowercased original and type
KeyOf(r) == <<Lower(Strip(r.original)), r.entity_type>>

(* C2: every returned Replacement of type PL_PESEL, PL_NIP or PL_REGON has *)
(* a replacement text that the validator of its family accepts.            *)
C2_NationalIdReplacementsValidate ==
    \A i \in 1..Len(Returned) :
        Returned[i].entity_type \in NationalIds
            => IdValidates(Returned[i].entity_type, Returned[i].replacement)

\* a national id that was served from the cache has been returned
C2_Witness ==
    \E i, j \in 1..Len(Returned) :
        /\ i < j
        /\ Returned[i].entity_type \in NationalIds
        /\ KeyOf(Returned[i]) = KeyOf(Returned[j])
        /\ IdValidates(Returned[j].entity_type, Returned[j].replacement)

(* C3: within one call, two Replacements with the same (trimmed,           *)
(* lowercased original, entity type) key carry the same replacement text.  *)
C3_SameKeySameReplacement ==
    \A i, j \in 1..Len(Returned) :
        KeyOf(Returned[i]) = KeyOf(Returned[j])
            => Returned[i].replacement = Returned[j].replacement

\* two Replacements share a key although their originals differ
C3_Witness ==
    \E i, j \in 1..Len(Returned) :
        /\ i # j
        /\ KeyOf(Returned[i]) = KeyOf(Returned[j])
        /\ Returned[i].original # Returned[j].original
        /\ Returned[i].replacement = Returned[j].replacement

Disjoint(a, b) == a.end <= b.start \/ b.end <= a.start

C5_AscendingStart ==
    \A i, j \in 1..Len(Returned) :
        i < j => Returned[i].start <= Returned[j].start

\* the position of a detection in what the detector returned
FirstIndex(dets, r) ==
    CHOOSE k \in 1..Len(dets) :
        /\ dets[k].start = r.start /\ dets[k].end = r.end
        /\ dets[k].entity_type = r.entity_type /\ dets[k].score = r.score
        /\ \A m \in 1..(k - 1) :
              ~(/\ dets[m].start = r.start /\ dets[m].end = r.end
                /\ dets[m].entity_type = r.entity_type /\ dets[m].score = r.score)

(* C5 amended: the replacements list of a result is in descending order    *)
(* of score, Replacements of equal score in the order in which the         *)
(* detector returned their detections.                                     *)
C5_DescendingScore ==
    result.original_text \in DOMAIN detected =>
        LET dets == detected[result.original_text]
        IN  \A i, j \in 1..Len(Returned) :
                i < j =>
                    \/ Returned[i].score > Returned[j].score
                    \/ /\ Returned[i].score = Returned[j].score
                       /\ FirstIndex(dets, Returned[i]) < FirstIndex(dets, Returned[j])

\* a result whose first Replacement lies to the right of a later one
C5_Witness ==
    \E i, j \in 1..Len(Returned) :
        /\ i < j
        /\ Returned[i].start > Returned[j].start
        /\ Returned[i].score > Returned[j].score

\* the Replacements of rs at or after offset from, leftmost first
RECURSIVE Substituted(_, _, _)
Substituted(txt, rs, from) ==
    LET rest == { i \in 1..Len(rs) : rs[i].start >= from }
    IN  IF rest = {} THEN Slice(txt, from, Len(txt))
        ELSE LET i == CHOOSE k \in rest : \A m \in rest : rs[k].start <= rs[m].start
             IN  Slice(txt, from, rs[i].start) \o rs[i].replacement
                 \o Substituted(txt, rs, rs[i].end)

(* C6: the rewritten text is the original text with exactly the accepted   *)
(* spans substituted, left to right: text[0:r1.start] + r1.replacement +   *)
(* text[r1.end:r2.start] + ... + rk.replacement + text[rk.end:].           *)
C6_RewrittenText ==
    result.pseudonymized_text = Substituted(result.original_text, Returned, 0)

\* two Replacements, the left one of another length than its original
C6_Witness ==
    \E i, j \in 1..Len(Returned) :
        /\ Returned[i].end <= Returned[j].start
        /\ Len(Returned[i].replacement) # Len(Returned[i].original)
        /\ result.pseudonymized_text # result.original_text

(* C7: with a fixed salt and a deterministic detector and generator, all   *)
(* finished calls on the same text returned the same string, whatever      *)
(* other texts were pseudonymized between them.                            *)
C7_SameTextSameOutput ==
    \A p, q \in returned : p[1] = q[1] => p[2] = q[2]

\* three calls have finished on two different texts, the last of them on a
\* text that was already pseudonymized before the other one was
C7_Witness ==
    /\ pc = "idle"
    /\ ncalls = 3
    /\ Cardinality({ p[1] : p \in returned }) = 2
    /\ \E s \in seeded : s.call = 1 /\ \E u \in seeded : u.call = 3 /\ u.value = s.value

(* C8: the same original value of the same entity type always receives    *)
(* the same replacement text, in the same call or in different calls.      *)
C8_SameValueSameReplacement ==
    \A p, q \in issued : (p[1] = q[1] /\ p[2] = q[2]) => p[3] = q[3]

C10_SameKeySameSeed ==
    \A i, j \in 1..Len(Returned) :
        KeyOf(Returned[i]) = KeyOf(Returned[j])
            => _compute_seed(salt, Returned[i].original, Returned[i].entity_type)
               = _compute_seed(salt, Returned[j].original, Returned[j].entity_type)

----------------------------------------------------------------------------
(* C11: in every result, a Replacement of type PERSON, ORGANIZATION or     *)
(* LOCATION whose original span is entirely uppercase has a replacement    *)
(* text that is entirely uppercase.                                        *)
C11_UpperOriginalUpperReplacement ==
    \A i \in 1..Len(Returned) :
        (/\ Returned[i].entity_type \in CASE_SENSITIVE_ENTITIES
         /\ IsUpper(Returned[i].original))
            => Returned[i].replacement = Upper(Returned[i].replacement)

----------------------------------------------------------------------------
(* Claims about _match_casing *)

HasUpper(s) == \E i \in 1..Len(s) : IsUpperChar(s[i])

\* every word of the source is a single character (and there is a word)
OnlySingleCharWords(s) ==
    /\ Split(s) # <<>>
    /\ \A i \in 1..Len(Split(s)) : Len(Split(s)[i]) = 1

\* rule 2's pattern: every word longer than one character is capitalized
TitlePattern(s) ==
    \A i \in 1..Len(Split(s)) : Len(Split(s)[i]) > 1 => IsTitleWord(Split(s)[i])

\* out consists of the words of replacement, in order, each with its first
\* character uppercased and its other characters lowercased, joined by
\* single spaces
WordsCapitalized(out, replacement) ==
    LET ow == Split(out)
        rw == Split(replacement)
    IN  /\ Len(ow) = Len(rw)
        /\ out = Join(ow)
        /\ \A k \in 1..Len(rw) :
              /\ Len(ow[k]) = Len(rw[k])
              /\ ow[k][1] = UpperChar(rw[k][1])
              /\ \A j \in 2..Len(rw[k]) : ow[k][j] = LowerChar(rw[k][j])

(* C12: _match_casing returns the replacement unchanged for every source   *)
(* that contains no uppercase letter, whatever the number and length of    *)
(* its words.                                                              *)
C12_NoUpperUnchanged ==
    (cased # NoCasing /\ ~HasUpper(cased.source))
        => cased.out = cased.replacement

(* C12 as amended: the replacement is returned unchanged for every source  *)
(* without an uppercase letter that has a word longer than one character   *)
(* or no word at all; when all its words are single characters, every      *)
(* word of the replacement is capitalized.                                 *)
C12_NoUpperLongWordUnchanged ==
    (cased # NoCasing /\ ~HasUpper(cased.source))
        => IF OnlySingleCharWords(cased.source)
           THEN WordsCapitalized(cased.out, cased.replacement)
           ELSE cased.out = cased.replacement

\* a lowercase source of a long and a single-character word, and a
\* replacement that capitalizing would have changed
C12_Witness ==
    /\ cased.source = <<"a", "a", " ", "a">>
    /\ cased.replacement = <<"o", "n", " ", "B", "o", "n", "a", " ", "B", "o", "b">>
    /\ cased.out = cased.replacement

(* C13: when the source is not entirely uppercase and every word of the    *)
(* source longer than one character is capitalized, _match_casing returns  *)
(* the words of the replacement, in order and in the same number, each     *)
(* capitalized, whatever the number of words of the source.                *)
C13_TitleSourceCapitalizes ==
    (cased # NoCasing /\ ~IsUpper(cased.source) /\ TitlePattern(cased.source))
        => WordsCapitalized(cased.out, cased.replacement)

(* C13 as amended: the same for a source that has at least one word; each  *)
(* word of the replacement has its first character uppercased and its      *)
(* other characters lowercased.  A source without any word leaves the      *)
(* replacement unchanged.                                                  *)
C13_TitleSourceWithWordCapitalizes ==
    (cased # NoCasing /\ ~IsUpper(cased.source) /\ TitlePattern(cased.source))
        => IF Split(cased.source) = <<>>
           THEN cased.out = cased.replacement
           ELSE WordsCapitalized(cased.out, cased.replacement)

\* a source of a capitalized word and a lowercase single-character word;
\* the replacement has another number of words and an inner capital
C13_Witness ==
    /\ cased.source = <<"A", "a", " ", "a">>
    /\ cased.replacement = <<"B", "o", "n", "a", "-", "B", "o", "b">>
    /\ cased.out = <<"B", "o", "n", "a", "-", "b", "o", "b">>

----------------------------------------------------------------------------
(* C14: in every result, a Replacement whose entity type has no generator  *)
(* mapping has a replacement made only of '*' characters, of exactly the   *)
(* length of that Replacement's original span.                             *)
C14_MaskOfSameLength ==
    \A i \in 1..Len(Returned) :
        ~InSeq(Returned[i].entity_type, MappedTypes)
            => /\ Len(Returned[i].replacement) = Len(Returned[i].original)
               /\ \A k \in 1..Len(Returned[i].replacement) :
                     Returned[i].replacement[k] = "*"

----------------------------------------------------------------------------
(* Claims about _filter_overlapping: its input is what the detector        *)
(* returned for the text of the call, its output the local `results`.      *)

FilterInput == IF text \in DOMAIN detected THEN detected[text] ELSE <<>>

FilterOutput == results

\* how many entries of the output are the detection a or the detection b
Retained(a, b) ==
    Cardinality({ k \in 1..Len(FilterOutput) :
                    FilterOutput[k] = a \/ FilterOutput[k] = b })

\* positions i < j of the input with equal score and intersecting ranges
TiedPairs ==
    { p \in (1..Len(FilterInput)) \X (1..Len(FilterInput)) :
        /\ p[1] < p[2]
        /\ FilterInput[p[1]].score = FilterInput[p[2]].score
        /\ ~Disjoint(FilterInput[p[1]], FilterInput[p[2]]) }

(* C15: when the input of _filter_overlapping contains two detections of   *)
(* identical score and intersecting spans, exactly one of the two is in    *)
(* the output.                                                             *)
C15_ExactlyOneOfTied ==
    \A p \in TiedPairs : Retained(FilterInput[p[1]], FilterInput[p[2]]) = 1

(* C15 as amended: at most one of the two is in the output; none of them   *)
(* is only when each of the two intersects a detection of the output; and  *)
(* when the two are the whole input, the output is the first of them.      *)
C15_AtMostOneOfTied ==
    \A p \in TiedPairs :
        LET a == FilterInput[p[1]]
            b == FilterInput[p[2]]
        IN  /\ Retained(a, b) <= 1
            /\ Retained(a, b) = 0 =>
                  /\ \E k \in 1..Len(FilterOutput) : ~Disjoint(FilterOutput[k], a)
                  /\ \E k \in 1..Len(FilterOutput) : ~Disjoint(FilterOutput[k], b)
            /\ Len(FilterInput) = 2 => FilterOutput = <<a>>

\* of two tied detections the later one is retained, the earlier one being
\* rejected by a detection of higher score
C15_Witness ==
    \E p \in TiedPairs :
        /\ FilterInput[p[1]] # FilterInput[p[2]]
        /\ Retained(FilterInput[p[1]], FilterInput[p[2]]) = 1
        /\ \E k \in 1..Len(FilterOutput) : FilterOutput[k] = FilterInput[p[2]]

\* position i of the input is scanned before position j
ScannedBefore(i, j) ==
    \/ FilterInput[i].score > FilterInput[j].score
    \/ FilterInput[i].score = FilterInput[j].score /\ i < j

\* position i is accepted: it intersects no accepted position scanned before it
RECURSIVE AcceptedAt(_)
AcceptedAt(i) ==
    \A j \in 1..Len(FilterInput) :
        (ScannedBefore(j, i) /\ ~Disjoint(FilterInput[i], FilterInput[j]))
            => ~AcceptedAt(j)

\* the place in the output of an accepted position
PlaceOf(i) ==
    1 + Cardinality({ j \in 1..Len(FilterInput) :
                        ScannedBefore(j, i) /\ AcceptedAt(j) })

(* C16: _filter_overlapping scans the detections by descending score,      *)
(* those of equal score in input order, accepts a detection exactly when   *)
(* its range intersects no previously accepted range, and its output is    *)
(* the accepted detections in scan order.                                  *)
C16_GreedyScanInScoreOrder ==
    /\ Len(FilterOutput) =
          Cardinality({ i \in 1..Len(FilterInput) : AcceptedAt(i) })
    /\ \A i \in 1..Len(FilterInput) :
          AcceptedAt(i) => FilterOutput[PlaceOf(i)] = FilterInput[i]

\* three detections: the first of the input has the lowest score and is
\* rejected, the two others tie and are both accepted
C16_Witness ==
    /\ Len(FilterInput) = 3
    /\ Len(FilterOutput) = 2
    /\ FilterOutput[1].score = FilterOutput[2].score
    /\ FilterInput[1].score < FilterOutput[1].score
    /\ FilterOutput = <<FilterInput[2], FilterInput[3]>>

(* C17: every detection of the input that is not in the output intersects  *)
(* some detection of the output whose score is greater than or equal to    *)
(* its own, and the detections of the output do not overlap one another.   *)
C17_RejectedOverlapsBetter ==
    /\ \A i \in 1..Len(FilterInput) :
          (\A k \in 1..Len(FilterOutput) : FilterOutput[k] # FilterInput[i])
             => \E k \in 1..Len(FilterOutput) :
                   /\ ~Disjoint(FilterOutput[k], FilterInput[i])
                   /\ FilterOutput[k].score >= FilterInput[i].score
    /\ \A k, m \in 1..Len(FilterOutput) :
          k # m => Disjoint(FilterOutput[k], FilterOutput[m])

\* a detection is rejected while two touching ranges are both accepted
C17_Witness ==
    /\ \E i \in 1..Len(FilterInput) :
          \A k \in 1..Len(FilterOutput) : FilterOutput[k] # FilterInput[i]
    /\ \E k, m \in 1..Len(FilterOutput) :
          FilterOutput[k].end = FilterOutput[m].start

----------------------------------------------------------------------------
(* C18: validate_pesel, validate_nip and validate_regon return a boolean   *)
(* and never raise, whatever the input string: empty, of the wrong length, *)
(* or made of characters that pass isdigit() without being ASCII decimal   *)
(* digits.                                                                 *)
C18_ValidatorsNeverRaise ==
    checked # NoCheck => checked.outcome \in {"True", "False"}

----------------------------------------------------------------------------
(* C19: generate_regon raises ValueError and returns no identifier for     *)
(* every length other than 9 and 14; for length 9 or 14 it returns a       *)
(* string of exactly that many decimal digits.                             *)
C19_RegonLengthChecked ==
    gen.fn = "regon" =>
        IF gen.arg \in {9, 14}
        THEN /\ gen.raised = "none"
             /\ Len(gen.out) = gen.arg
             /\ \A k \in 1..Len(gen.out) : InSeq(gen.out[k], Digits)
        ELSE /\ gen.raised = "ValueError"
             /\ gen.out = <<>>

\* generate_regon was asked for a REGON of 10 digits and raised
C19_Witness ==
    /\ gen.fn = "regon"
    /\ gen.arg = 10
    /\ gen.raised = "ValueError"

----------------------------------------------------------------------------
(* C20: when the detector or a replacement generation raises during        *)
(* pseudonymize_with_details, the call returns nothing: no result, no      *)
(* rewritten text, no Replacement; and no Replacement of a mapped entity   *)
(* type ever carries the mask in the place of a generated value.           *)
C20_FailurePropagates ==
    /\ pc = "raised" =>
          /\ result = [original_text |-> <<>>, pseudonymized_text |-> <<>>,
                       replacements |-> <<>>]
          /\ returned = {}
          /\ issued = {}
    /\ \A i \in 1..Len(replacements) :
          InSeq(replacements[i].entity_type, MappedTypes)
             => \E k \in 1..Len(replacements[i].replacement) :
                   replacements[i].replacement[k] # "*"

\* the generator raised after a first Replacement had been prepared
C20_Witness ==
    /\ pc = "raised"
    /\ Len(replacements) >= 1
    /\ idx <= Len(results)
    /\ InSeq(results[idx].entity_type, MappedTypes)

----------------------------------------------------------------------------
(* C21: a Pseudonymizer constructed without a salt or with an empty salt   *)
(* fails at construction, so that no pseudonymize call ever runs with the  *)
(* default salt or with an empty salt.                                     *)
C21_NoCallWithoutSalt ==
    ncalls > 0 => (salt # <<>> /\ salt # __init__(NotGiven))

----------------------------------------------------------------------------
(* C22: concurrent calls on one Pseudonymizer share no mutable state:      *)
(* under every interleaving each finished call has returned the result it  *)
(* returns when run alone, and the cache of a call holds only keys of      *)
(* that call's own detections.                                             *)
C22_ConcurrentCallsIsolated ==
    \A t \in Threads :
        /\ threads[t].pc = "done"
              => threads[t].result
                 = RunAlone(salt, threads[t].text, threads[t].dets)
        /\ \A key \in DOMAIN caches[t] :
              \E i \in 1..Len(threads[t].results) :
                 key = CacheKey(Slice(threads[t].text, threads[t].results[i].start,
                                      threads[t].results[i].end),
                                threads[t].results[i].entity_type)

\* one call has returned while another is inside its loop, and their caches
\* hold different texts for the same key
C22_Witness ==
    \E t, u \in Threads :
        /\ threads[t].pc = "done"
        /\ threads[u].pc = "prepare"
        /\ threads[u].idx > 1
        /\ \E key \in DOMAIN caches[t] \cap DOMAIN caches[u] :
              caches[t][key] # caches[u][key]

----------------------------------------------------------------------------
\* the generations of the running call for a cache key
GenerationsFor(key) ==
    { g \in seeded : g.call = ncalls /\ CacheKey(g.value, g.entity_type) = key }

\* the first position of `replacements` with the cache key of position i
FirstWithKey(i) ==
    CHOOSE j \in 1..i :
        /\ KeyOf(replacements[j]) = KeyOf(replacements[i])
        /\ \A m \in 1..(j - 1) : KeyOf(replacements[m]) # KeyOf(replacements[i])

(* C23: within one call a replacement is generated exactly once for each   *)
(* normalized key among the accepted detections, at the first detection    *)
(* with that key in processing order; every later detection with the key   *)
(* carries the cached text, with no generation and no casing of its own.   *)
C23_GeneratedOncePerKey ==
    \A i \in 1..Len(replacements) :
        LET first == replacements[FirstWithKey(i)]
        IN  /\ Cardinality(GenerationsFor(KeyOf(replacements[i]))) = 1
            /\ \A g \in GenerationsFor(KeyOf(replacements[i])) :
                  /\ g.at = FirstWithKey(i)
                  /\ g.value = first.original
            /\ replacements[i].replacement
               = NewReplacement(salt, first.original, first.entity_type)

\* a later detection of a key carries a text that casing of its own span
\* would have changed
C23_Witness ==
    \E i \in 1..Len(replacements) :
        /\ FirstWithKey(i) < i
        /\ replacements[i].replacement
           # NewReplacement(salt, replacements[i].original,
                             replacements[i].entity_type)

----------------------------------------------------------------------------
(* Claims about the validators on caller-supplied strings *)

\* s without its spaces and hyphens
Cleaned(s) == SelectSeq(s, LAMBDA c : c # " " /\ c # "-")

\* the weighted sum of the first n characters of a string of decimal digits
DigitSum(s, w, n) == WSum([i \in 1..n |-> ToInt(s[i])], w, n)

\* the control digit of the family for the digits before the last one;
\* 10 stands for "no digit" (NIP with a weighted sum of 10 modulo 11)
ControlOf(fn, s) ==
    CASE fn = "pesel" -> (10 - (DigitSum(s, PESEL_WEIGHTS, 10) % 10)) % 10
      [] fn = "nip"   -> DigitSum(s, NIP_WEIGHTS, 9) % 11
      [] fn = "regon" ->
            LET sum == IF Len(s) = 9 THEN DigitSum(s, REGON_9_WEIGHTS, 8)
                       ELSE DigitSum(s, REGON_14_WEIGHTS, 13)
            IN  IF sum % 11 = 10 THEN 0 ELSE sum % 11

FamilyLengths(fn) ==
    CASE fn = "pesel" -> {11}
      [] fn = "nip"   -> {10}
      [] fn = "regon" -> {9, 14}

\* the input is a well-formed identifier of the family
WellFormed(fn, s) ==
    LET c == Cleaned(s)
    IN  /\ Len(c) \in FamilyLengths(fn)
        /\ \A i \in 1..Len(c) : InSeq(c[i], Digits)
        /\ ToInt(c[Len(c)]) = ControlOf(fn, c)

(* C24: each validator returns true exactly when the input without its     *)
(* spaces and hyphens consists only of digits, has the length of the       *)
(* family and ends with the control digit computed from the digits before  *)
(* it; in every other case it returns false.                               *)
C24_TrueExactlyWhenWellFormed ==
    checked # NoCheck
        => checked.outcome = Bool(WellFormed(checked.fn, checked.input))

\* the input without spaces and hyphens passes isdigit() and the characters
\* before the last one are decimal digits with a weighted sum of 10 modulo 11
SumIsTen(fn, s) ==
    LET c == Cleaned(s)
    IN  /\ Len(c) \in FamilyLengths(fn)
        /\ IsDigitStr(c)
        /\ \A i \in 1..(Len(c) - 1) : InSeq(c[i], Digits)
        /\ CASE fn = "nip" -> DigitSum(c, NIP_WEIGHTS, 9) % 11 = 10
             [] fn = "regon" ->
                   IF Len(c) = 9 THEN DigitSum(c, REGON_9_WEIGHTS, 8) % 11 = 10
                   ELSE DigitSum(c, REGON_14_WEIGHTS, 13) % 11 = 10
             [] OTHER -> FALSE

(* C25: validate_nip returns false for every 10-digit string whose first   *)
(* nine digits have a weighted sum of 10 modulo 11, whatever the last      *)
(* digit, 0 included; validate_regon returns true for a last digit 0 when  *)
(* the weighted sum is 10 modulo 11.                                       *)
C25_NipRejectsTenRegonAcceptsZero ==
    (checked # NoCheck /\ SumIsTen(checked.fn, checked.input))
        => /\ checked.fn = "nip" => checked.outcome = "False"
           /\ (/\ checked.fn = "regon"
               /\ Cleaned(checked.input)[Len(Cleaned(checked.input))] = "0")
                 => checked.outcome = "True"

\* a NIP with a weighted sum of 10 modulo 11 and the last digit 0 was rejected
C25_Witness ==
    /\ checked.fn = "nip"
    /\ SumIsTen("nip", checked.input)
    /\ checked.input[Len(checked.input)] = "0"
    /\ checked.outcome = "False"

----------------------------------------------------------------------------
\* the number written by the decimal digits s[a..b]
RECURSIVE NumberAt(_, _, _)
NumberAt(s, a, b) ==
    IF a > b THEN 0 ELSE NumberAt(s, a, b - 1) * 10 + ToInt(s[b])

(* C26: for every seed generate_pesel returns exactly 11 decimal digits:   *)
(* the first two a number in 50..99, the next two in 01..12, the next two  *)
(* in 01..28, and the last one the control digit (10 - weighted sum mod    *)
(* 10) mod 10 of the ten digits before it.                                 *)
C26_PeselShape ==
    gen.fn = "pesel" =>
        /\ Len(gen.out) = 11
        /\ \A k \in 1..Len(gen.out) : InSeq(gen.out[k], Digits)
        /\ NumberAt(gen.out, 1, 2) \in 50..99
        /\ NumberAt(gen.out, 3, 4) \in 1..12
        /\ NumberAt(gen.out, 5, 6) \in 1..28
        /\ ToInt(gen.out[11])
           = (10 - (DigitSum(gen.out, PESEL_WEIGHTS, 10) % 10)) % 10

\* a PESEL whose weighted sum is a multiple of 10: the control digit is 0;
\* its month and day are written with a leading zero
C26_Witness ==
    /\ gen.fn = "pesel"
    /\ DigitSum(gen.out, PESEL_WEIGHTS, 10) % 10 = 0
    /\ gen.out[11] = "0"
    /\ gen.out[3] = "0"
    /\ gen.out[5] = "0"

----------------------------------------------------------------------------
----------------------------------------------------------------------------
(* C28: casing is applied to PERSON, ORGANIZATION and LOCATION only: the   *)
(* replacement of a detection of any other entity type is exactly what     *)
(* the generator or the mask returned for its key, also when the original  *)
(* span is entirely uppercase or capitalized.                              *)
C28_NoCasingForOtherTypes ==
    \A i \in 1..Len(replacements) :
        replacements[i].entity_type \notin {"PERSON", "ORGANIZATION", "LOCATION"}
            => replacements[i].replacement
               = _generate_replacement(salt,
                     replacements[FirstWithKey(i)].original,
                     replacements[i].entity_type)

\* an e-mail address in capitals and one capitalized, with replacements
\* that uppercasing and capitalizing would have changed
C28_Witness ==
    \E i, j \in 1..Len(Returned) :
        /\ Returned[i].entity_type = "EMAIL_ADDRESS"
        /\ IsUpper(Returned[i].original)
        /\ Returned[i].replacement # Upper(Returned[i].replacement)
        /\ Returned[j].entity_type = "EMAIL_ADDRESS"
        /\ ~IsUpper(Returned[j].original)
        /\ TitlePattern(Returned[j].original)
        /\ Returned[j].replacement
           # _match_casing(Returned[j].original, Returned[j].replacement)

----------------------------------------------------------------------------
(* C29: in generate_nip, when the first control value is 10, the control   *)
(* value recomputed after adding 1 modulo 10 to the ninth digit is never   *)
(* 10, so control_digit is never forced to 0, and the last emitted digit   *)
(* is the weighted sum of the nine emitted digits modulo 11.               *)
C29_RepairNeverLeavesTen ==
    gen # NoGen =>
        /\ WSum(gen.draw, NIP_WEIGHTS, 9) % 11 = 10
              => WSum(NipRepaired(gen.draw), NIP_WEIGHTS, 9) % 11 # 10
        /\ ~gen.emitted.forced
        /\ gen.emitted.control_digit
           = WSum(gen.emitted.nip_9, NIP_WEIGHTS, 9) % 11

\* a draw with first control value 10 whose ninth digit 9 wraps to 0
C29_Witness ==
    /\ gen # NoGen
    /\ WSum(gen.draw, NIP_WEIGHTS, 9) % 11 = 10
    /\ gen.draw[9] = 9
    /\ gen.emitted.nip_9[9] = 0

----------------------------------------------------------------------------
\* how many entries of the list rs are the detection r
Occurrences(rs, r) == Cardinality({ k \in 1..Len(rs) : rs[k] = r })

(* C30: _filter_overlapping only selects: every detection of its output is *)
(* a detection of its input with the same start, end, entity type and      *)
(* score, no more often than the input has it, and applied to its own      *)
(* output it returns that output.                                          *)
C30_SelectsAndIdempotent ==
    /\ \A k \in 1..Len(FilterOutput) :
          /\ \E i \in 1..Len(FilterInput) : FilterInput[i] = FilterOutput[k]
          /\ Occurrences(FilterOutput, FilterOutput[k])
             <= Occurrences(FilterInput, FilterOutput[k])
    /\ _filter_overlapping(FilterOutput) = FilterOutput

\* a detection was dropped, two were kept, and the kept ones are not in the
\* detector's order
C30_Witness ==
    /\ Len(FilterOutput) >= 2
    /\ Len(FilterInput) > Len(FilterOutput)
    /\ FilterOutput[1] # FilterInput[1]
    /\ \E i, j \in 1..Len(FilterInput) :
          /\ i < j
          /\ FilterInput[i] = FilterOutput[2]
          /\ FilterInput[j] = FilterOutput[1]

====
